---- MODULE Spec2Model ----
(***************************************************************************)
(* WhisperGrid thread engine (src/client/index.ts, class Client).          *)
(*                                                                         *)
(* Two clients, an inviter and a replier, each with its own storage, and   *)
(* a third key holder "M" who owns an identity key and an ECDH key and can *)
(* hand either client any JWS it is able to build from what went over the  *)
(* wire.  Cryptography is symbolic: a key is its number, a signature names *)
(* its signer and the bytes it covers, a ciphertext names the secret that  *)
(* opens it.                                                               *)
(***************************************************************************)
EXTENDS Integers, Sequences, FiniteSets, TLC

\* ------------------------------------------------------------------ bounds
\* calls that change the caller's storage in one run
MaxCalls == 5

\* ----------------------------------------------------------------- parties
Inviters == {"A"}
Repliers == {"B"}
Clients == Inviters \cup Repliers
\* plaintexts: of a first reply, of a later reply (one of them starts with
\* U+FEFF), of M
FirstMessages == {<<"h", "i">>}
ReplyMessages == {<<"r", "e">>, <<"BOM", "r">>}
MalloryMessage == <<"e", "v">>

\* ------------------------------------------------------------------- keys
\* A public JWK {kty, crv, x, y}: x stands for the point.
JWK(n) == [kty |-> "EC", x |-> n]
\* an absent jwk / epk member (undefined in the source)
NoJWK == [kty |-> "none", x |-> 0]
\* exportKeyPair: {publicKeyJWK, privateKeyJWK}; the private JWK adds d.
KeyPairJWKs(n) == [publicKeyJWK |-> JWK(n), privateKeyJWK |-> [kty |-> "EC", x |-> n, d |-> n]]

\* generateECDSAKeyPair in generateClient: the identity key of each party
IdentityKeyId(c) == CASE c = "A" -> 1 [] c = "B" -> 2 [] OTHER -> 3
\* generateECDHKeyPair in generateClient: the storage key of each party
StorageKeyId(c) == CASE c = "A" -> 4 [] c = "B" -> 5 [] OTHER -> 6
IdentityPublicJWK(c) == JWK(IdentityKeyId(c))
\* generateECDHKeyPair in makeThreadKeys (n-th call) and in its encryptToSelf
ThreadKeyId(n) == 2 * n + 7
SelfEphemeralKeyId(n) == 2 * n + 8

\* getJWKthumbprint: RFC 7638, a hash of the canonical public members only
getJWKthumbprint(jwk) == <<"sha256", jwk.kty, jwk.x>>
\* an absent thumbprint (payload.re undefined, threadThumbprint undefined)
NoThumbprint == <<>>

\* deriveSharedSecret(privateKey, publicKey): ECDH, then an AES-GCM key
deriveSharedSecret(privJWK, pubJWK) == {privJWK.d, pubJWK.x}

\* --------------------------------------------------------------- encodings
\* Buffer.toString("base64" | "base64url") and Buffer.from(s, "base64url"),
\* whose decoder takes both alphabets.
ToBase64(bytes) == [enc |-> "base64", bytes |-> bytes]
ToBase64Url(bytes) == [enc |-> "base64url", bytes |-> bytes]
FromBase64Url(s) == s.bytes

\* Number(n).toString(16) and parseInt(s, 16); a string is its digits, 16
\* stands for a character that is no hex digit, NaN is -1.
NaN == 0 - 1
RECURSIVE ToHex(_)
ToHex(n) ==
  IF n = NaN THEN <<16>>
  ELSE IF n < 16 THEN <<n>>
  ELSE ToHex(n \div 16) \o <<n % 16>>
RECURSIVE ParseDigits(_, _)
ParseDigits(s, acc) ==
  IF s = <<>> \/ Head(s) > 15 THEN acc
  ELSE ParseDigits(Tail(s), 16 * acc + Head(s))
ParseInt16(s) == IF s = <<>> \/ Head(s) > 15 THEN NaN ELSE ParseDigits(s, 0)
\* a + 1 and a === b on JavaScript numbers
PlusOne(a) == IF a = NaN THEN NaN ELSE a + 1
StrictEquals(a, b) == a # NaN /\ b # NaN /\ a = b

\* ----------------------------------------------------------------- AES-GCM
\* window.crypto.subtle.encrypt / decrypt with name "AES-GCM"
NoCiphertext == [key |-> {}, iv |-> 0, pt |-> <<>>]
AesGcmEncrypt(secret, iv, plaintext) == [key |-> secret, iv |-> iv, pt |-> plaintext]
AesGcmDecryptOk(secret, iv, ct) == ct.key # {} /\ ct.key = secret /\ ct.iv = iv
\* JSON.stringify / parse of a key pair
JsonOfKeyPair(jwks) == <<"json", jwks.publicKeyJWK.x>>
KeyPairOfJson(pt) == KeyPairJWKs(pt[2])
\* window.crypto.getRandomValues(new Uint8Array(12))
RandomIV == 1

\* A string is the sequence of its UTF-16 code units: a letter, "BOM" for
\* U+FEFF, "HI" for a high and "LO" for a low surrogate. Its UTF-8 bytes are
\* given by the scalar values they encode: "PAIR" is the scalar of HI LO and
\* "FFFD" the replacement character. encryptToSelf gets its string as
\* <<"units", seq>> or as <<"json", key>>, a stringified key pair, which is
\* well-formed ASCII that both directions keep.
MaxUnits == 3
CodeUnits == {"a", "BOM", "HI", "LO"}
RECURSIVE ToScalars(_)
ToScalars(u) ==
  IF u = <<>> THEN <<>>
  ELSE IF Len(u) >= 2 /\ u[1] = "HI" /\ u[2] = "LO"
       THEN <<"PAIR">> \o ToScalars(SubSeq(u, 3, Len(u)))
       ELSE <<IF u[1] \in {"HI", "LO"} THEN "FFFD" ELSE u[1]>> \o ToScalars(Tail(u))
RECURSIVE ToUnits(_)
ToUnits(b) ==
  IF b = <<>> THEN <<>>
  ELSE (IF b[1] = "PAIR" THEN <<"HI", "LO">> ELSE <<b[1]>>) \o ToUnits(Tail(b))
\* new TextEncoder().encode(message): a lone surrogate becomes U+FFFD
TextEncoderEncode(message) ==
  IF message # <<>> /\ message[1] = "units" THEN <<"utf8", ToScalars(message[2])>> ELSE message
\* new TextDecoder().decode(buffer): a leading byte order mark is dropped
TextDecoderDecode(buffer) ==
  IF buffer # <<>> /\ buffer[1] = "utf8"
  THEN <<"units", ToUnits(IF buffer[2] # <<>> /\ buffer[2][1] = "BOM"
                          THEN Tail(buffer[2]) ELSE buffer[2])>>
  ELSE buffer
\* replyToThread, line 370: new TextEncoder().encode(message)
Utf8(message) == <<"text", ToScalars(message)>>

\* --------------------------------------------------------------------- JWS
NoPayload ==
  [re |-> NoThumbprint, messageId |-> <<>>, message |-> ToBase64Url(NoCiphertext),
   iv |-> ToBase64(0), epk |-> NoJWK]
BareHeader == [alg |-> "ES384", jwk |-> NoJWK]
NoJWS ==
  [header |-> [alg |-> "none", jwk |-> NoJWK], payload |-> NoPayload,
   signature |-> [kid |-> 0, header |-> [alg |-> "none", jwk |-> NoJWK], payload |-> NoPayload]]

\* signJWS(header, payload, privateKey): the signature covers header.payload
signJWS(header, payload, keyId) ==
  [header |-> header, payload |-> payload,
   signature |-> [kid |-> keyId, header |-> header, payload |-> payload]]

VerifyWithKey(jws, pubJWK) ==
  /\ jws.signature.kid = pubJWK.x
  /\ pubJWK.kty = "EC"
  /\ jws.signature.header = jws.header
  /\ jws.signature.payload = jws.payload

\* verifyJWS(jws, pubKey?): without a key the embedded jwk is used, and
\* verification fails when there is none.
verifyJWS(jws, pubJWK) ==
  IF pubJWK # NoJWK THEN VerifyWithKey(jws, pubJWK)
  ELSE jws.header.jwk # NoJWK /\ VerifyWithKey(jws, jws.header.jwk)

\* parseJWS(jws, pubKey): mode "key" verifies under pubJWK, mode "undefined"
\* (argument omitted) verifies under the embedded jwk, mode "null" decodes
\* without verifying.  TRUE when parseJWS returns, FALSE when it throws.
parseJWSOk(jws, mode, pubJWK) ==
  CASE mode = "null" -> TRUE
    [] mode = "key" -> VerifyWithKey(jws, pubJWK)
    [] OTHER -> verifyJWS(jws, NoJWK)

\* ----------------------------------------------------------------- storage
\* GridStorage: one map per namespace, keyed by the part after the colon.
EmptyMap == [k \in {} |-> {}]
EmptyStorage ==
  [invitation |-> EmptyMap, encryptedThreadKey |-> EmptyMap, threadInfo |-> EmptyMap,
   threads |-> EmptyMap, messages |-> EmptyMap, messageId |-> EmptyMap,
   publicKey |-> EmptyMap]
hasItem(map, key) == key \in DOMAIN map
setItem(map, key, value) ==
  [k \in (DOMAIN map) \cup {key} |-> IF k = key THEN value ELSE map[k]]
appendItem(map, key, value) ==
  setItem(map, key, (IF key \in DOMAIN map THEN map[key] ELSE <<>>) \o <<value>>)

\* The value of an await: Only({e(x) : x \in {v}}) is e with x naming the
\* value of v, computed once.
Only(S) == CHOOSE x \in S : TRUE

\* ----------------------------------------------------------- self-encryption
\* Client.decryptFromSelf: [ok, message]
decryptFromSelf(c, jws) ==
  LET secret == deriveSharedSecret(KeyPairJWKs(StorageKeyId(c)).privateKeyJWK, jws.payload.epk)
      iv == FromBase64Url(jws.payload.iv)
      ct == FromBase64Url(jws.payload.message)
      ok == /\ parseJWSOk(jws, "key", IdentityPublicJWK(c))
            /\ jws.payload.epk # NoJWK
            /\ AesGcmDecryptOk(secret, iv, ct)
  IN [ok |-> ok, message |-> IF ok THEN TextDecoderDecode(ct.pt) ELSE <<>>]

\* encryptToSelf returning whatever it has signed
SelfTestPassed_Unchecked(encryptedJWS, back, message) == TRUE
\* encryptToSelf, lines 213-220: the self-test of the signed JWS
SelfTestPassed(encryptedJWS, back, message) == verifyJWS(encryptedJWS, NoJWK) /\ back.ok /\ back.message = message

\* Client.encryptToSelf with the fresh ECDH key e: [ok, jws]
encryptToSelf(c, message, e) ==
  LET secret == deriveSharedSecret(KeyPairJWKs(e).privateKeyJWK, JWK(StorageKeyId(c)))
      encrypted == AesGcmEncrypt(secret, RandomIV, TextEncoderEncode(message))
      header == [alg |-> "ES384", jwk |-> IdentityPublicJWK(c)]
      payload == [NoPayload EXCEPT !.message = ToBase64Url(encrypted),
                                   !.iv = ToBase64(RandomIV),
                                   !.epk = KeyPairJWKs(e).publicKeyJWK]
  IN Only({
       Only({ [ok |-> SelfTestPassed(encryptedJWS, back, message),
               jws |-> encryptedJWS]
              : back \in {decryptFromSelf(c, encryptedJWS)} })
       : encryptedJWS \in {signJWS(header, payload, IdentityKeyId(c))} })

\* ------------------------------------------------------------- thread engine
\* makeThreadKeys storing the backup under the thumbprint of the wrong key
makeThreadKeys_WrongEntry(c, s, n) ==
  LET jwks == KeyPairJWKs(ThreadKeyId(n))
      thumbprint == getJWKthumbprint(jwks.publicKeyJWK)
  IN Only({ [ok |-> keyBackup.ok,
             s |-> IF keyBackup.ok
                   THEN [s EXCEPT !.encryptedThreadKey =
                           setItem(@, getJWKthumbprint(keyBackup.jws.payload.epk), keyBackup.jws)]
                   ELSE s,
             thumbprint |-> thumbprint, jwks |-> jwks]
            : keyBackup \in {encryptToSelf(c, JsonOfKeyPair(jwks), SelfEphemeralKeyId(n))} })

\* Client.makeThreadKeys, the n-th thread key of the run: [ok, s, thumbprint, jwks]
makeThreadKeys(c, s, n) ==
  LET jwks == KeyPairJWKs(ThreadKeyId(n))
      thumbprint == getJWKthumbprint(jwks.publicKeyJWK)
  IN Only({ [ok |-> keyBackup.ok,
             s |-> IF keyBackup.ok
                   THEN [s EXCEPT !.encryptedThreadKey = setItem(@, thumbprint, keyBackup.jws)]
                   ELSE s,
             thumbprint |-> thumbprint, jwks |-> jwks]
            : keyBackup \in {encryptToSelf(c, JsonOfKeyPair(jwks), SelfEphemeralKeyId(n))} })

\* the k-th storage write of startThread (lines 292, 293, 299, 300, 301)
StartThreadWrite(k, c, s, signedInvite, theirEPKJWK, theirSignature, messageId, myThumbprint) ==
  CASE k = 1 -> [s EXCEPT !.publicKey = setItem(@, getJWKthumbprint(theirSignature), theirSignature)]
    [] k = 2 -> [s EXCEPT !.threadInfo = setItem(@, myThumbprint,
                    [myThumbprint |-> myThumbprint, theirEPK |-> theirEPKJWK,
                     signedInvite |-> signedInvite, theirSignature |-> theirSignature])]
    [] k = 3 -> [s EXCEPT !.threads = appendItem(@, getJWKthumbprint(IdentityPublicJWK(c)), myThumbprint)]
    [] k = 4 -> [s EXCEPT !.messages = appendItem(@, myThumbprint, signedInvite)]
    [] k = 5 -> [s EXCEPT !.messageId = setItem(@, myThumbprint, messageId)]

\* the storage writes of startThread, in the order of the source
StartThreadWrites(c, s, signedInvite, theirEPKJWK, theirSignature, messageId, myThumbprint) ==
  LET s1 == StartThreadWrite(1, c, s, signedInvite, theirEPKJWK, theirSignature, messageId, myThumbprint)
      s2 == StartThreadWrite(2, c, s1, signedInvite, theirEPKJWK, theirSignature, messageId, myThumbprint)
      s3 == StartThreadWrite(3, c, s2, signedInvite, theirEPKJWK, theirSignature, messageId, myThumbprint)
      s4 == StartThreadWrite(4, c, s3, signedInvite, theirEPKJWK, theirSignature, messageId, myThumbprint)
  IN StartThreadWrite(5, c, s4, signedInvite, theirEPKJWK, theirSignature, messageId, myThumbprint)

\* Client.startThread; myThumbprint = NoThumbprint when the argument is
\* omitted: [ok, s, myThumbprint, made]
startThread(c, s, signedInvite, theirEPKJWK, theirSignature, messageId, myThumbprint, n) ==
  LET fresh == myThumbprint = NoThumbprint
      \* mk: the result of makeThreadKeys, looked at only when fresh
      from(mk) ==
        LET s0 == IF fresh THEN mk.s ELSE s
            mine == IF fresh THEN mk.thumbprint ELSE myThumbprint
            ok == (fresh => mk.ok) /\ hasItem(s0.encryptedThreadKey, mine)
        IN [ok |-> ok,
            s |-> IF ok
                  THEN StartThreadWrites(c, s0, signedInvite, theirEPKJWK, theirSignature,
                                         messageId, mine)
                  ELSE s0,
            myThumbprint |-> mine,
            made |-> IF fresh THEN 1 ELSE 0]
  IN Only({ from(mk) : mk \in {makeThreadKeys(c, s, n)} })

\* Client.readThreadSecret: [ok, secret, epk]
readThreadSecret(c, s, threadThumbprint) ==
  LET found == hasItem(s.threadInfo, threadThumbprint)
      threadInfo == s.threadInfo[threadThumbprint]
      hasKey == found /\ threadInfo.theirEPK # NoJWK
                      /\ hasItem(s.encryptedThreadKey, threadInfo.myThumbprint)
      from(back) ==
        LET ok == hasKey /\ back.ok
            jwks == KeyPairOfJson(back.message)
        IN [ok |-> ok,
            secret |-> IF ok THEN deriveSharedSecret(jwks.privateKeyJWK, threadInfo.theirEPK)
                       ELSE {},
            epk |-> IF ok THEN jwks.publicKeyJWK ELSE NoJWK]
  IN IF hasKey
     THEN Only({ from(back)
                 : back \in {decryptFromSelf(c, s.encryptedThreadKey[threadInfo.myThumbprint])} })
     ELSE [ok |-> FALSE, secret |-> {}, epk |-> NoJWK]

\* appendThread, lines 481-505: the key a JWS that does not verify under an
\* embedded jwk is checked against (NoJWK: "Unable to determine public key")
SignerKey(c, jws, threadInfo) ==
  IF jws.header.jwk = NoJWK /\ jws.payload.re # NoThumbprint
  THEN IF jws.payload.re = getJWKthumbprint(threadInfo.theirEPK)
       THEN IdentityPublicJWK(c)
       ELSE IF jws.payload.re = threadInfo.myThumbprint
            THEN threadInfo.theirSignature
            ELSE NoJWK
  ELSE NoJWK

\* the second verification not awaited: any selected key passes
SignatureAccepted_Unawaited(c, jws, threadInfo) ==
  \/ verifyJWS(jws, NoJWK)
  \/ SignerKey(c, jws, threadInfo) # NoJWK

\* appendThread, lines 480-518: TRUE when no error is thrown
SignatureAccepted(c, jws, threadInfo) ==
  \/ verifyJWS(jws, NoJWK)
  \/ /\ SignerKey(c, jws, threadInfo) # NoJWK
     /\ verifyJWS(jws, SignerKey(c, jws, threadInfo))

\* new TextDecoder().decode(decryptedBuffer)
TextOf(pt) ==
  IF Len(pt) >= 2
  THEN ToUnits(IF pt[2] # <<>> /\ pt[2][1] = "BOM" THEN Tail(pt[2]) ELSE pt[2])
  ELSE <<>>

\* a decryption whose failure is swallowed
DecryptsUnder_Unchecked(rts, iv, ct) == rts.ok
\* appendThread, lines 520-535: the message decrypts under the thread secret
DecryptsUnder(rts, iv, ct) == rts.ok /\ AesGcmDecryptOk(rts.secret, iv, ct)

\* appendThread with threadThumbprint set, lines 476-543:
\* [ok, s, threadThumbprint, message]
AppendToThread(c, s, jws, threadThumbprint) ==
  LET found == hasItem(s.threadInfo, threadThumbprint)
      threadInfo == s.threadInfo[threadThumbprint]
      iv == FromBase64Url(jws.payload.iv)
      ct == FromBase64Url(jws.payload.message)
      verified == /\ found
                  /\ parseJWSOk(jws, "null", NoJWK)
                  /\ SignatureAccepted(c, jws, threadInfo)
      result(ok) ==
        [ok |-> ok,
         s |-> IF ok THEN [s EXCEPT !.messages = appendItem(@, threadThumbprint, jws)] ELSE s,
         threadThumbprint |-> threadThumbprint,
         message |-> IF ok THEN TextOf(ct.pt) ELSE <<>>]
  IN Only({ result(ok)
            : ok \in {verified /\ Only({ DecryptsUnder(rts, iv, ct)
                                         : rts \in {readThreadSecret(c, s, threadThumbprint)} })} })

\* a sequence check that expects the invitation's own message id
SequenceCheck_SameId(jws, invitationJWS) ==
  StrictEquals(ParseInt16(jws.payload.messageId), ParseInt16(invitationJWS.payload.messageId))

\* a sequence check that also lets later message ids through
SequenceCheck_AtLeast(jws, invitationJWS) ==
  ParseInt16(jws.payload.messageId) >= PlusOne(ParseInt16(invitationJWS.payload.messageId))

\* appendThread, lines 459-463: the sequence check on a first reply
SequenceCheck(jws, invitationJWS) ==
  StrictEquals(ParseInt16(jws.payload.messageId),
               PlusOne(ParseInt16(invitationJWS.payload.messageId)))

\* a first reply taken without looking for its epk
MissingEpk_Unchecked(jws) == FALSE
\* appendThread, line 451: "First message must have an epk"
MissingEpk(jws) == jws.payload.epk = NoJWK

\* Client.appendThread; threadThumbprint = NoThumbprint when omitted:
\* [ok, s, threadThumbprint, message, started]
appendThread(c, s, jws, threadThumbprint) ==
  LET re == jws.payload.re
      none == [ok |-> FALSE, s |-> s, threadThumbprint |-> NoThumbprint,
               message |-> <<>>, started |-> FALSE]
      known(s1, t, st) == AppendToThread(c, s1, jws, t) @@ [started |-> st]
  IN IF threadThumbprint # NoThumbprint THEN known(s, threadThumbprint, FALSE)
     ELSE IF ~parseJWSOk(jws, "null", NoJWK) THEN none
     ELSE IF jws.header.jwk = NoJWK
     THEN IF hasItem(s.threadInfo, re) THEN known(s, re, FALSE) ELSE none
     ELSE IF MissingEpk(jws) \/ ~hasItem(s.invitation, re) THEN none
     ELSE LET invitation == s.invitation[re]
              myThumbprint == getJWKthumbprint(invitation.payload.epk)
          IN IF ~parseJWSOk(invitation, "undefined", NoJWK) \/ ~SequenceCheck(jws, invitation)
             THEN none
             ELSE Only({ IF ~st.ok THEN [none EXCEPT !.s = st.s]
                         ELSE Only({ known(s1, st.myThumbprint, TRUE) : s1 \in {st.s} })
                         : st \in {startThread(c, s, invitation, jws.payload.epk, jws.header.jwk,
                                               jws.payload.messageId, myThumbprint, 0)} })

\* the next message id without the increment, and written in decimal
NextMessageId_NoIncrement(messageId) == ToHex(ParseInt16(messageId))
RECURSIVE ToDecimal(_)
ToDecimal(n) == IF n < 10 THEN <<n>> ELSE Append(ToDecimal(n \div 10), n % 10)
NextMessageId_Decimal(messageId) == ToDecimal(PlusOne(ParseInt16(messageId)))

\* replyToThread, lines 376-383: the next message id, hex-encoded
NextMessageId(messageId) == ToHex(PlusOne(ParseInt16(messageId)))

\* replyToThread using the message id that was stored when the call began
MessageIdRead_AtStart(stored, atStart) == atStart
\* replyToThread, line 373: the message id is read where it is incremented
MessageIdRead(stored, atStart) == stored

\* replyToThread, lines 359-368 and 386-409: the signed reply
ReplyJWS(c, theirEPK, rts, nextId, message, selfSign) ==
  LET encrypted == AesGcmEncrypt(rts.secret, RandomIV, Utf8(message))
      payload == [NoPayload EXCEPT !.re = getJWKthumbprint(theirEPK),
                                   !.messageId = nextId,
                                   !.message = ToBase64Url(encrypted),
                                   !.iv = ToBase64(RandomIV),
                                   !.epk = IF selfSign THEN rts.epk ELSE NoJWK]
      header == [BareHeader EXCEPT !.jwk = IF selfSign THEN IdentityPublicJWK(c) ELSE NoJWK]
  IN signJWS(header, payload, IdentityKeyId(c))

\* replyToThread, lines 416-427: the reply decrypts to the message
ReplySelfTest(rts, encryptedJWS, message) ==
  /\ AesGcmDecryptOk(rts.secret, RandomIV, FromBase64Url(encryptedJWS.payload.message))
  /\ TextOf(FromBase64Url(encryptedJWS.payload.message).pt) = message

\* Client.replyToThread: [ok, s, jws]
replyToThread(c, s, threadThumbprint, message, selfSign) ==
  LET failed(s2) == [ok |-> FALSE, s |-> s2, jws |-> NoJWS]
      hasId == hasItem(s.messageId, threadThumbprint)
      from(rts, nextId) ==
        LET s1 == [s EXCEPT !.messageId = setItem(@, threadThumbprint, nextId)]
            threadInfo == s1.threadInfo[threadThumbprint]
        IN Only({ IF ~ReplySelfTest(rts, encryptedJWS, message) THEN failed(stored)
                  ELSE Only({ IF ~app.ok THEN failed(app.s)
                              ELSE [ok |-> TRUE, s |-> app.s, jws |-> encryptedJWS]
                              : app \in {appendThread(c, stored, encryptedJWS, threadThumbprint)} })
                  : stored \in {s1},
                    encryptedJWS \in {ReplyJWS(c, threadInfo.theirEPK, rts, nextId, message, selfSign)} })
  IN Only({ IF ~rts.ok \/ ~hasId THEN failed(s)
            ELSE Only({ from(rts, nextId)
                        : nextId \in {NextMessageId(MessageIdRead(s.messageId[threadThumbprint],
                                                                   s.messageId[threadThumbprint]))} })
            : rts \in {readThreadSecret(c, s, threadThumbprint)} })

\* Client.createInvitation with Math.random() yielding id: [ok, s, jws]
createInvitation(c, s, id, n) ==
  LET header == [alg |-> "ES384", jwk |-> IdentityPublicJWK(c)]
      from(mk) ==
        LET payload == [NoPayload EXCEPT !.messageId = ToHex(id), !.epk = mk.jwks.publicKeyJWK]
            signedInvitation == signJWS(header, payload, IdentityKeyId(c))
        IN IF ~mk.ok THEN [ok |-> FALSE, s |-> mk.s, jws |-> NoJWS]
           ELSE [ok |-> TRUE,
                 s |-> [mk.s EXCEPT !.invitation = setItem(@, mk.thumbprint, signedInvitation)],
                 jws |-> signedInvitation]
  IN Only({ from(mk) : mk \in {makeThreadKeys(c, s, n)} })

\* Client.replyToInvitation: [ok, s, jws, made]
replyToInvitation(c, s, signedInvite, message, n) ==
  IF ~verifyJWS(signedInvite, NoJWK) \/ ~parseJWSOk(signedInvite, "undefined", NoJWK)
  THEN [ok |-> FALSE, s |-> s, jws |-> NoJWS, made |-> 0]
  ELSE Only({ IF ~st.ok THEN [ok |-> FALSE, s |-> st.s, jws |-> NoJWS, made |-> st.made]
              ELSE Only({ reply @@ [made |-> st.made]
                          : reply \in {Only({ replyToThread(c, started, st.myThumbprint, message, TRUE)
                                              : started \in {st.s} })} })
              : st \in {startThread(c, s, signedInvite, signedInvite.payload.epk,
                                    signedInvite.header.jwk, signedInvite.payload.messageId,
                                    NoThumbprint, n)} })

VARIABLES
  store,     \* store[c]: the GridStorage of client c
  wire,      \* what the clients have returned so far: [jws, op, by, message]
  keysMade,  \* number of makeThreadKeys calls so far
  calls,     \* number of calls so far that changed the caller's storage
  last,      \* the call whose result the caller is looking at: its arguments,
             \* its result and the caller's storage before it
  tasks      \* the calls in progress when calls overlap, each at its own
             \* suspension point (used by SpecTasks only)
vars == <<store, wire, keysMade, calls, last, tasks>>

NoCall ==
  [op |-> "none", client |-> "A", ok |-> TRUE, jws |-> NoJWS, thread |-> NoThumbprint,
   message |-> <<>>, selfSign |-> FALSE, out |-> NoJWS, resThread |-> NoThumbprint,
   resMessage |-> <<>>, started |-> FALSE, pre |-> EmptyStorage]

\* ------------------------------------------------------------------ inputs
\* Math.floor(Math.random() * MAX_MESSAGE_ID): 15 is "f", the first reply "10"
\* MAX_MESSAGE_ID = Number.MAX_SAFE_INTEGER / 2, scaled down
MAX_MESSAGE_ID == 17
\* Math.floor(Math.random() * MAX_MESSAGE_ID): some value below MAX_MESSAGE_ID
InvitationIds == {MAX_MESSAGE_ID - 2}
WireJWS == {w.jws : w \in wire}
Invitations == {w.jws : w \in {v \in wire : v.op = "createInvitation"}}
Replies == {w.jws : w \in {v \in wire : v.op # "createInvitation"}}

\* a JWS whose payload was altered after signing
TamperMessage(jws) == [jws EXCEPT !.payload.message = ToBase64Url(NoCiphertext)]
TamperMessageId(jws) ==
  [jws EXCEPT !.payload.messageId = ToHex(PlusOne(ParseInt16(jws.payload.messageId)))]

\* what M can build: a first reply of its own to an invitation it has seen,
\* with the expected or a later messageId, encrypted to the inviter or not
\* decryptable at all
MalloryFirstReply(invitation, skip, decryptable) ==
  LET mine == KeyPairJWKs(StorageKeyId("M"))
      secret == deriveSharedSecret(mine.privateKeyJWK, invitation.payload.epk)
      payload == [NoPayload EXCEPT
                    !.re = getJWKthumbprint(invitation.payload.epk),
                    !.messageId = ToHex(ParseInt16(invitation.payload.messageId) + 1 + skip),
                    !.message = ToBase64Url(IF decryptable
                                            THEN AesGcmEncrypt(secret, RandomIV, Utf8(MalloryMessage))
                                            ELSE NoCiphertext),
                    !.iv = ToBase64(RandomIV),
                    !.epk = mine.publicKeyJWK]
  IN signJWS([BareHeader EXCEPT !.jwk = IdentityPublicJWK("M")], payload, IdentityKeyId("M"))
\* a self-signed first reply of M that carries no epk
MalloryNoEpkReply(invitation) ==
  signJWS([BareHeader EXCEPT !.jwk = IdentityPublicJWK("M")],
          [MalloryFirstReply(invitation, 0, TRUE).payload EXCEPT !.epk = NoJWK],
          IdentityKeyId("M"))
\* a reply without jwk, signed by M and addressed to a thumbprint
MalloryBareReply(re) ==
  signJWS(BareHeader,
          [NoPayload EXCEPT !.re = re, !.messageId = ToHex(1), !.iv = ToBase64(RandomIV)],
          IdentityKeyId("M"))
\* the payload of a captured reply, signed again by M, with or without M's jwk
MalloryResign(jws, selfSigned) ==
  signJWS([BareHeader EXCEPT !.jwk = IF selfSigned THEN IdentityPublicJWK("M") ELSE NoJWK],
          jws.payload, IdentityKeyId("M"))

\* what M hands to client c: replies of c's peer altered after signing or
\* signed again by M, first replies to c's invitations, and a bare reply
\* addressed to no thread of c
PeerReplies(c) == {r \in Replies : r.signature.kid # IdentityKeyId(c)}
Forgeries(c) ==
  {TamperMessage(j) : j \in PeerReplies(c)}
  \cup {MalloryResign(j, b) : j \in PeerReplies(c), b \in BOOLEAN}
  \cup {MalloryFirstReply(store[c].invitation[i], 0, d) : i \in DOMAIN store[c].invitation, d \in BOOLEAN}
  \cup {MalloryFirstReply(store[c].invitation[i], 1, TRUE) : i \in DOMAIN store[c].invitation}
  \cup {MalloryNoEpkReply(store[c].invitation[i]) : i \in DOMAIN store[c].invitation}
  \cup {MalloryBareReply(getJWKthumbprint(JWK(StorageKeyId("M"))))}

KnownThumbprints(c) == DOMAIN store[c].encryptedThreadKey

\* ----------------------------------------------------------------- actions
\* Callers issue their calls one after the other: a call starts when the
\* result of the one before has been taken (Return).
Idle == last.op = "none"

\* calls' counts the call when it changed storage, and no call is made once
\* MaxCalls calls have changed it
Counted(c, s) ==
  /\ calls < MaxCalls
  /\ calls' = IF s = store[c] THEN calls ELSE calls + 1

CreateInvitation(c, id) ==
  /\ Idle
  /\ \E r \in {createInvitation(c, store[c], id, keysMade)} :
        /\ Counted(c, r.s)
        /\ store' = [store EXCEPT ![c] = r.s]
        /\ wire' = IF r.ok
                   THEN wire \cup {[jws |-> r.jws, op |-> "createInvitation", by |-> c, message |-> <<>>]}
                   ELSE wire
        /\ keysMade' = keysMade + 1
        /\ last' = [NoCall EXCEPT !.op = "createInvitation", !.client = c, !.ok = r.ok,
                                  !.out = r.jws, !.pre = store[c]]
        /\ UNCHANGED tasks

ReplyToInvitation(c, signedInvite, message) ==
  /\ Idle
  /\ \E r \in {replyToInvitation(c, store[c], signedInvite, message, keysMade)} :
        /\ Counted(c, r.s)
        /\ store' = [store EXCEPT ![c] = r.s]
        /\ wire' = IF r.ok
                   THEN wire \cup {[jws |-> r.jws, op |-> "replyToInvitation", by |-> c, message |-> message]}
                   ELSE wire
        /\ keysMade' = keysMade + r.made
        /\ last' = [NoCall EXCEPT !.op = "replyToInvitation", !.client = c, !.ok = r.ok,
                                  !.jws = signedInvite, !.message = message,
                                  !.selfSign = TRUE, !.out = r.jws, !.pre = store[c]]
        /\ UNCHANGED tasks

ReplyToThread(c, threadThumbprint, message, selfSign) ==
  /\ Idle
  /\ \E r \in {replyToThread(c, store[c], threadThumbprint, message, selfSign)} :
        /\ Counted(c, r.s)
        /\ store' = [store EXCEPT ![c] = r.s]
        /\ wire' = IF r.ok
                   THEN wire \cup {[jws |-> r.jws, op |-> "replyToThread", by |-> c, message |-> message]}
                   ELSE wire
        /\ last' = [NoCall EXCEPT !.op = "replyToThread", !.client = c, !.ok = r.ok,
                                  !.thread = threadThumbprint, !.message = message,
                                  !.selfSign = selfSign, !.out = r.jws, !.pre = store[c]]
        /\ UNCHANGED <<keysMade, tasks>>

AppendThread(c, jws, threadThumbprint) ==
  /\ Idle
  /\ \E r \in {appendThread(c, store[c], jws, threadThumbprint)} :
        /\ Counted(c, r.s)
        /\ store' = [store EXCEPT ![c] = r.s]
        /\ last' = [NoCall EXCEPT !.op = "appendThread", !.client = c, !.ok = r.ok,
                                  !.jws = jws, !.thread = threadThumbprint,
                                  !.resThread = IF r.ok THEN r.threadThumbprint ELSE NoThumbprint,
                                  !.resMessage = r.message, !.started = r.started,
                                  !.pre = store[c]]
        /\ UNCHANGED <<wire, keysMade, tasks>>

\* the caller takes the result (or the error) of its call
Return ==
  /\ ~Idle
  /\ last' = NoCall
  /\ UNCHANGED <<store, wire, keysMade, calls, tasks>>

Init ==
  /\ store = [c \in Clients |-> EmptyStorage]
  /\ wire = {}
  /\ keysMade = 0
  /\ calls = 0
  /\ last = NoCall
  /\ tasks = <<>>

Next ==
  \/ \E c \in Inviters, id \in InvitationIds : CreateInvitation(c, id)
  \/ \E c \in Repliers, i \in Invitations \cup {TamperMessageId(j) : j \in Invitations},
        m \in FirstMessages : ReplyToInvitation(c, i, m)
  \/ \E c \in Clients : \E t \in KnownThumbprints(c), m \in ReplyMessages :
        ReplyToThread(c, t, m, FALSE)
  \/ \E c \in Clients : \E j \in WireJWS \cup Forgeries(c),
        t \in {NoThumbprint} \cup DOMAIN store[c].threadInfo : AppendThread(c, j, t)
  \/ Return

Spec == Init /\ [][Next]_vars

\* ------------------------------------------------- self-encryption on its own
\* the strings of at most MaxUnits code units, and a stringified key pair
SelfMessages ==
  {<<"units", u>> : u \in UNION {[1..n -> CodeUnits] : n \in 0..MaxUnits}}
  \cup {JsonOfKeyPair(KeyPairJWKs(ThreadKeyId(0)))}

\* c calls encryptToSelf(message); a call that throws returns no value
EncryptToSelf(c, message, e) ==
  /\ Idle
  /\ \E r \in {encryptToSelf(c, message, e)} :
        last' = [NoCall EXCEPT !.op = "encryptToSelf", !.client = c, !.message = message,
                               !.ok = r.ok, !.out = IF r.ok THEN r.jws ELSE NoJWS]
  /\ UNCHANGED <<store, wire, keysMade, calls, tasks>>

\* c calls decryptFromSelf on the value encryptToSelf has just returned
DecryptFromSelf(c) ==
  /\ last.op = "encryptToSelf" /\ last.ok /\ wire = {}
  /\ \E r \in {decryptFromSelf(c, last.out)} :
        wire' = {[op |-> "decryptFromSelf", by |-> c, jws |-> last.out,
                  ok |-> r.ok, message |-> r.message]}
  /\ UNCHANGED <<store, keysMade, calls, last, tasks>>

ReturnSelf ==
  /\ ~Idle
  /\ last' = NoCall
  /\ wire' = {}
  /\ UNCHANGED <<store, keysMade, calls, tasks>>

NextSelf ==
  \/ \E c \in Clients, m \in SelfMessages : EncryptToSelf(c, m, SelfEphemeralKeyId(0))
  \/ \E c \in Clients : DecryptFromSelf(c)
  \/ ReturnSelf

SpecSelf == Init /\ [][NextSelf]_vars

\* ----------------------------------------------------- calls that overlap
\* A call runs until it awaits, another call of the same client may run
\* while it is suspended, and the process may stop between any two storage
\* writes (the store has no transactions). Calls are split at the awaits that
\* separate their storage accesses, and startThread at each of its writes.
MaxTasks == 2

NoSecret == [ok |-> FALSE, secret |-> {}, epk |-> NoJWK]
\* a call that has just begun; with: the calls in progress at that moment,
\* seen: message-id of its thread when it read the thread secret
NewTask ==
  [op |-> "none", client |-> "A", pc |-> "failed", k |-> 1, thread |-> NoThumbprint,
   message |-> <<>>, selfSign |-> FALSE, invite |-> NoJWS, peer |-> NoJWS,
   rts |-> NoSecret, seen |-> <<>>, nextId |-> <<>>, theirEPK |-> NoJWK,
   out |-> NoJWS, with |-> {}]

Active(i) == tasks[i].pc \notin {"done", "failed", "interrupted"}
ActiveTasks == {i \in DOMAIN tasks : Active(i)}
\* startThread does not await between its writes (lines 292-301)
HoldsCpu(i) == Active(i) /\ tasks[i].pc = "startThread" /\ tasks[i].k > 1
CpuFree(c) == \A j \in DOMAIN tasks : tasks[j].client = c => ~HoldsCpu(j)
CanStep(i) ==
  /\ i \in DOMAIN tasks
  /\ Active(i)
  /\ \A j \in DOMAIN tasks \ {i} : tasks[j].client = tasks[i].client => ~HoldsCpu(j)
Begin(task) ==
  /\ Len(tasks) < MaxTasks
  /\ CpuFree(task.client)
  /\ tasks' = Append(tasks, [task EXCEPT !.with = ActiveTasks])

\* replyToInvitation, lines 259-260
BeginReplyToInvitation(c, signedInvite, message) ==
  /\ Begin([NewTask EXCEPT !.op = "replyToInvitation", !.client = c, !.message = message,
                           !.selfSign = TRUE, !.invite = signedInvite, !.peer = signedInvite,
                           !.pc = IF /\ verifyJWS(signedInvite, NoJWK)
                                     /\ parseJWSOk(signedInvite, "undefined", NoJWK)
                                  THEN "makeThreadKeys" ELSE "failed"])
  /\ UNCHANGED <<store, wire, keysMade, calls, last>>

\* startThread, lines 282-285: makeThreadKeys writes encrypted-thread-key
MakeThreadKeys(i) ==
  /\ CanStep(i) /\ tasks[i].pc = "makeThreadKeys"
  /\ \E c \in {tasks[i].client} : \E mk \in {makeThreadKeys(c, store[c], keysMade)} :
        /\ store' = [store EXCEPT ![c] = mk.s]
        /\ tasks' = [tasks EXCEPT ![i].thread = mk.thumbprint,
                                  ![i].pc = IF mk.ok THEN "keyBackup" ELSE "failed"]
  /\ keysMade' = keysMade + 1
  /\ UNCHANGED <<wire, calls, last>>

\* startThread, lines 286-291: the key backup must be there
KeyBackup(i) ==
  /\ CanStep(i) /\ tasks[i].pc = "keyBackup"
  /\ tasks' = [tasks EXCEPT ![i].k = 1,
                            ![i].pc = IF hasItem(store[tasks[i].client].encryptedThreadKey,
                                                 tasks[i].thread)
                                      THEN "startThread" ELSE "failed"]
  /\ UNCHANGED <<store, wire, keysMade, calls, last>>

\* startThread, lines 292-303: its next storage write; after the last one
\* replyToInvitation goes on with replyToThread (line 268) and appendThread
\* with the append to the thread (line 473)
StartThreadStep(i) ==
  /\ CanStep(i) /\ tasks[i].pc = "startThread"
  /\ \E c \in {tasks[i].client} :
        store' = [store EXCEPT ![c] =
                    StartThreadWrite(tasks[i].k, c, store[c], tasks[i].invite,
                                     tasks[i].peer.payload.epk, tasks[i].peer.header.jwk,
                                     tasks[i].peer.payload.messageId, tasks[i].thread)]
  /\ tasks' = IF tasks[i].k < 5
              THEN [tasks EXCEPT ![i].k = @ + 1]
              ELSE [tasks EXCEPT ![i].pc = IF tasks[i].op = "replyToInvitation"
                                            THEN "readThreadSecret" ELSE "verify"]
  /\ UNCHANGED <<wire, keysMade, calls, last>>

\* a caller calls replyToThread on a thread it knows
BeginReplyToThread(c, threadThumbprint, message) ==
  /\ Begin([NewTask EXCEPT !.op = "replyToThread", !.client = c, !.thread = threadThumbprint,
                           !.message = message, !.pc = "readThreadSecret"])
  /\ UNCHANGED <<store, wire, keysMade, calls, last>>

\* replyToThread, line 362: readThreadSecret
ReadThreadSecret(i) ==
  /\ CanStep(i) /\ tasks[i].pc = "readThreadSecret"
  /\ \E c \in {tasks[i].client} : \E rts \in {readThreadSecret(c, store[c], tasks[i].thread)} :
        tasks' = [tasks EXCEPT ![i].rts = rts,
                               ![i].seen = IF hasItem(store[c].messageId, tasks[i].thread)
                                           THEN store[c].messageId[tasks[i].thread] ELSE <<>>,
                               ![i].pc = IF rts.ok THEN "encrypt" ELSE "failed"]
  /\ UNCHANGED <<store, wire, keysMade, calls, last>>

\* replyToThread, lines 364-386: once the encryption has resolved, message-id
\* is read, incremented and written, and thread-info is read, without an await
IncrementMessageId(i) ==
  /\ CanStep(i) /\ tasks[i].pc = "encrypt"
  /\ \E c \in {tasks[i].client}, t \in {tasks[i].thread} :
        IF ~hasItem(store[c].messageId, t)
        THEN /\ tasks' = [tasks EXCEPT ![i].pc = "failed"]
             /\ UNCHANGED store
        ELSE \E nextId \in {NextMessageId(MessageIdRead(store[c].messageId[t], tasks[i].seen))} :
               /\ store' = [store EXCEPT ![c].messageId = setItem(@, t, nextId)]
               /\ tasks' = [tasks EXCEPT ![i].nextId = nextId,
                                         ![i].theirEPK = store[c].threadInfo[t].theirEPK,
                                         ![i].pc = "sign"]
  /\ UNCHANGED <<wire, keysMade, calls, last>>

\* replyToThread, lines 388-427: the reply is built, signed and self-tested
SignAndSelfTest(i) ==
  /\ CanStep(i) /\ tasks[i].pc = "sign"
  /\ \E jws \in {ReplyJWS(tasks[i].client, tasks[i].theirEPK, tasks[i].rts, tasks[i].nextId,
                           tasks[i].message, tasks[i].selfSign)} :
        tasks' = [tasks EXCEPT ![i].out = jws,
                               ![i].pc = IF ReplySelfTest(tasks[i].rts, jws, tasks[i].message)
                                         THEN "verify" ELSE "failed"]
  /\ UNCHANGED <<store, wire, keysMade, calls, last>>

\* a client is handed a reply of its peer, without a thread id (lines
\* 440-474). A first reply is handed over once, to an invitation that has
\* started no thread.
BeginAppendThread(c, jws) ==
  /\ jws.header.jwk # NoJWK =>
        /\ ~hasItem(store[c].threadInfo, jws.payload.re)
        /\ \A j \in DOMAIN tasks :
              ~(tasks[j].client = c /\ tasks[j].op = "appendThread"
                /\ tasks[j].out.header.jwk # NoJWK /\ tasks[j].out.payload.re = jws.payload.re)
  /\ LET re == jws.payload.re
         failed == [NewTask EXCEPT !.op = "appendThread", !.client = c, !.out = jws]
     IN Begin(IF ~parseJWSOk(jws, "null", NoJWK) THEN failed
              ELSE IF jws.header.jwk = NoJWK
              THEN IF hasItem(store[c].threadInfo, re)
                   THEN [failed EXCEPT !.thread = re, !.pc = "verify"]
                   ELSE failed
              ELSE IF MissingEpk(jws) \/ ~hasItem(store[c].invitation, re) THEN failed
              ELSE IF \/ ~parseJWSOk(store[c].invitation[re], "undefined", NoJWK)
                      \/ ~SequenceCheck(jws, store[c].invitation[re])
              THEN failed
              ELSE [failed EXCEPT !.invite = store[c].invitation[re], !.peer = jws,
                                  !.thread = getJWKthumbprint(store[c].invitation[re].payload.epk),
                                  !.pc = "keyBackup"])
  /\ UNCHANGED <<store, wire, keysMade, calls, last>>

\* appendThread with the thread id, lines 476-536: the JWS is verified and
\* decrypted under the thread secret
VerifyAppend(i) ==
  /\ CanStep(i) /\ tasks[i].pc = "verify"
  /\ \E c \in {tasks[i].client} : \E r \in {AppendToThread(c, store[c], tasks[i].out, tasks[i].thread)} :
        tasks' = [tasks EXCEPT ![i].pc = IF r.ok THEN "appendItem" ELSE "failed"]
  /\ UNCHANGED <<store, wire, keysMade, calls, last>>

\* appendThread, lines 538-542: the JWS is appended to messages:<thread>, and
\* a reply is returned to its caller (line 430)
AppendItem(i) ==
  /\ CanStep(i) /\ tasks[i].pc = "appendItem"
  /\ \E c \in {tasks[i].client} :
        /\ store' = [store EXCEPT ![c].messages = appendItem(@, tasks[i].thread, tasks[i].out)]
        /\ wire' = IF tasks[i].op = "appendThread" THEN wire
                   ELSE wire \cup {[jws |-> tasks[i].out, op |-> tasks[i].op, by |-> c,
                                     message |-> tasks[i].message]}
  /\ tasks' = [tasks EXCEPT ![i].pc = "done"]
  /\ UNCHANGED <<keysMade, calls, last>>

\* the process of client c stops: its calls in progress end where they are
\* and storage stays as it is
Interrupt(c) ==
  /\ \E i \in ActiveTasks : tasks[i].client = c
  /\ tasks' = [i \in DOMAIN tasks |->
                 IF tasks[i].client = c /\ Active(i)
                 THEN [tasks[i] EXCEPT !.pc = "interrupted"] ELSE tasks[i]]
  /\ UNCHANGED <<store, wire, keysMade, calls, last>>

\* an inviter has created an invitation and a replier has replied to it
InitTasks ==
  /\ \E a \in Inviters, b \in Repliers, id \in InvitationIds, m \in FirstMessages :
       \E i \in {createInvitation(a, EmptyStorage, id, 0)} :
         \E r \in {replyToInvitation(b, EmptyStorage, i.jws, m, 1)} :
           /\ store = [d \in Clients |-> IF d = a THEN i.s ELSE IF d = b THEN r.s
                                                              ELSE EmptyStorage]
           /\ wire = {[jws |-> i.jws, op |-> "createInvitation", by |-> a, message |-> <<>>],
                      [jws |-> r.jws, op |-> "replyToInvitation", by |-> b, message |-> m]}
  /\ keysMade = 2
  /\ calls = 0
  /\ last = NoCall
  /\ tasks = <<>>

NextTasks ==
  \/ \E c \in Repliers, i \in Invitations, m \in FirstMessages : BeginReplyToInvitation(c, i, m)
  \/ \E c \in Clients : \E t \in DOMAIN store[c].threadInfo, m \in ReplyMessages :
        BeginReplyToThread(c, t, m)
  \/ \E c \in Clients : \E j \in PeerReplies(c) : BeginAppendThread(c, j)
  \/ \E i \in DOMAIN tasks :
        \/ MakeThreadKeys(i)
        \/ KeyBackup(i)
        \/ StartThreadStep(i)
        \/ ReadThreadSecret(i)
        \/ IncrementMessageId(i)
        \/ SignAndSelfTest(i)
        \/ VerifyAppend(i)
        \/ AppendItem(i)
  \/ \E c \in Clients : Interrupt(c)

SpecTasks == InitTasks /\ [][NextTasks]_vars

\* ------------------------------------------------------------------ claims
Range(seq) == {seq[i] : i \in DOMAIN seq}
\* the caller of the latest call, its storage after the call and before it
Caller == last.client
After == store[last.client]
Before == last.pre
\* the bytes the signature was made over are the bytes the JWS now holds
Intact(jws) == jws.signature.header = jws.header /\ jws.signature.payload = jws.payload
IsReply(jws) == jws.payload.re # NoThumbprint
MessageIdOf(jws) == ParseInt16(jws.payload.messageId)
\* a self-signed reply carrying an epk, handed to appendThread without a
\* thread id, whose re names an invitation the caller has stored
FirstReplyCall ==
  /\ last.op = "appendThread"
  /\ last.thread = NoThumbprint
  /\ last.jws.header.jwk # NoJWK
  /\ last.jws.payload.epk # NoJWK
  /\ hasItem(Before.invitation, last.jws.payload.re)

\* C1: a JWS whose signature does not verify (its payload was altered after
\* signing) makes appendThread fail and leaves the caller's storage as it was.
C1_NoCommitOnUnverified ==
  (last.op = "appendThread" /\ ~Intact(last.jws)) => (~last.ok /\ After = Before)

\* C2: along every messages:<T> list of either side the parsed messageId of
\* each entry is exactly one more than that of the entry before it.
C2_LogIdsIncreaseByOne ==
  \A c \in Clients : \A t \in DOMAIN store[c].messages :
    \A i \in 1 .. (Len(store[c].messages[t]) - 1) :
      MessageIdOf(store[c].messages[t][i + 1]) = MessageIdOf(store[c].messages[t][i]) + 1

\* C3: once message-id:<T> is set, a call never lowers it, and a call that
\* writes it (replyToThread, or appendThread running startThread for T)
\* stores a strictly greater integer.
C3_MessageIdStrictlyIncreasing ==
  \A t \in DOMAIN Before.messageId :
    LET old == ParseInt16(Before.messageId[t])
        new == ParseInt16(After.messageId[t])
        written == \/ After.messageId[t] # Before.messageId[t]
                   \/ (last.op = "appendThread" /\ last.started /\ t = last.jws.payload.re)
    IN new >= old /\ (written => new > old)

\* C4: on a first reply, appendThread without a thread id starts the thread
\* only if the reply's messageId is the invitation's plus one; for any other
\* messageId it fails and the caller's storage is unchanged.
C4_SequenceCheckOnFirstReply ==
  (FirstReplyCall /\ verifyJWS(last.jws, NoJWK)) =>
    LET expected == MessageIdOf(Before.invitation[last.jws.payload.re]) + 1
    IN /\ last.started => MessageIdOf(last.jws) = expected
       /\ MessageIdOf(last.jws) # expected => (~last.ok /\ After = Before)
C4_Witness ==
  /\ FirstReplyCall /\ verifyJWS(last.jws, NoJWK)
  /\ MessageIdOf(last.jws) = MessageIdOf(Before.invitation[last.jws.payload.re]) + 2
  /\ ~last.ok

\* C5: the inviter's appendThread, without a thread id, of the reply R1 that
\* replyToInvitation(I, m) returned succeeds and returns the thumbprint of
\* I's epk and m; afterwards thread-info binds R1's epk and jwk, threads:<A>
\* lists the thread and message-id is R1's messageId.
HandshakeCall(w) ==
  /\ FirstReplyCall
  /\ w.op = "replyToInvitation"
  /\ w.jws = last.jws
C5_Handshake ==
  \A w \in wire : HandshakeCall(w) =>
    LET t == getJWKthumbprint(Before.invitation[last.jws.payload.re].payload.epk)
    IN /\ last.ok
       /\ last.resThread = t
       /\ last.resMessage = w.message
       /\ hasItem(After.threadInfo, t)
       /\ After.threadInfo[t].theirEPK = last.jws.payload.epk
       /\ After.threadInfo[t].theirSignature = last.jws.header.jwk
       /\ t \in Range(After.threads[getJWKthumbprint(IdentityPublicJWK(Caller))])
       /\ After.messageId[t] = last.jws.payload.messageId
C5_Witness ==
  /\ \E w \in wire : HandshakeCall(w)
  /\ last.ok
  /\ ~hasItem(Before.threadInfo, last.resThread)
  /\ hasItem(After.threadInfo, last.resThread)

\* C6: a JWS without jwk is accepted into a known thread T only if it is
\* addressed to T.myThumbprint and verifies under T.theirSignature, or is
\* addressed to thumbprint(T.theirEPK) and verifies under the caller's own
\* identity key; addressed to neither, it fails and messages:<T> is unchanged.
KnownThreadOfCall == IF last.thread # NoThumbprint THEN last.thread ELSE last.jws.payload.re
BareCallOnThread ==
  /\ last.op = "appendThread"
  /\ last.jws.header.jwk = NoJWK
  /\ hasItem(Before.threadInfo, KnownThreadOfCall)
FromPeer(jws, threadInfo) ==
  jws.payload.re = threadInfo.myThumbprint /\ VerifyWithKey(jws, threadInfo.theirSignature)
FromMe(c, jws, threadInfo) ==
  /\ jws.payload.re = getJWKthumbprint(threadInfo.theirEPK)
  /\ VerifyWithKey(jws, IdentityPublicJWK(c))
C6_SignerSelection ==
  BareCallOnThread =>
    LET t == KnownThreadOfCall
        threadInfo == Before.threadInfo[t]
    IN /\ last.ok => (FromPeer(last.jws, threadInfo) \/ FromMe(Caller, last.jws, threadInfo))
       /\ (/\ last.jws.payload.re # threadInfo.myThumbprint
           /\ last.jws.payload.re # getJWKthumbprint(threadInfo.theirEPK))
          => (~last.ok /\ After.messages[t] = Before.messages[t])
C6_Witness ==
  /\ BareCallOnThread
  /\ last.ok
  /\ hasItem(Before.invitation, KnownThreadOfCall)
  /\ FromPeer(last.jws, Before.threadInfo[KnownThreadOfCall])
  /\ \E w \in wire : w.op = "replyToThread" /\ w.jws = last.jws

\* C7: the reply replyToInvitation returns carries the replier's identity
\* key as jwk, the public half of the thread key pair just created as epk,
\* re = thumbprint of the invitation's epk and the invitation's messageId
\* plus one; a later replyToThread reply carries neither jwk nor epk, and the
\* inviter whose thread is bound to that replier's thread accepts it.
FirstReplyShape ==
  (last.op = "replyToInvitation" /\ last.ok) =>
    LET made == DOMAIN After.encryptedThreadKey \ DOMAIN Before.encryptedThreadKey
        kept == decryptFromSelf(Caller, After.encryptedThreadKey[getJWKthumbprint(last.out.payload.epk)])
    IN /\ last.out.header.jwk = IdentityPublicJWK(Caller)
       /\ made = {getJWKthumbprint(last.out.payload.epk)}
       /\ kept.ok /\ KeyPairOfJson(kept.message).publicKeyJWK = last.out.payload.epk
       /\ last.out.payload.re = getJWKthumbprint(last.jws.payload.epk)
       /\ MessageIdOf(last.out) = MessageIdOf(last.jws) + 1
LaterReplyShape ==
  (last.op = "replyToThread" /\ ~last.selfSign /\ last.ok) =>
    (last.out.header.jwk = NoJWK /\ last.out.payload.epk = NoJWK)
\* w is a reply made by replyToThread on the sender's thread that the
\* caller's thread re names as its peer
LaterReplyOfPeer(w) ==
  /\ last.op = "appendThread"
  /\ w.op = "replyToThread"
  /\ w.jws = last.jws
  /\ w.jws.header.jwk = NoJWK
  /\ w.by # Caller
  /\ hasItem(Before.invitation, w.jws.payload.re)
  /\ hasItem(Before.threadInfo, w.jws.payload.re)
  /\ last.thread \in {NoThumbprint, w.jws.payload.re}
  /\ Before.threadInfo[w.jws.payload.re].theirSignature = IdentityPublicJWK(w.by)
  /\ \E t \in DOMAIN store[w.by].messages :
        /\ w.jws \in Range(store[w.by].messages[t])
        /\ t = getJWKthumbprint(Before.threadInfo[w.jws.payload.re].theirEPK)
LaterReplyAccepted ==
  \A w \in wire : LaterReplyOfPeer(w) =>
    (last.ok /\ last.resThread = w.jws.payload.re /\ last.resMessage = w.message)
C7_ReplyShapes == FirstReplyShape /\ LaterReplyShape /\ LaterReplyAccepted
C7_Witness ==
  /\ \E w \in wire : LaterReplyOfPeer(w) /\ MessageIdOf(w.jws) = MessageIdOf(Before.invitation[w.jws.payload.re]) + 2
  /\ last.ok

\* C8: a successful replyToThread on thread T changes in the caller's storage
\* exactly message-id:<T>, now one more than before, and messages:<T>, now
\* one entry longer; the returned JWS carries the new message id and
\* re = thumbprint(T.theirEPK).
C8_ReplyToThreadFrame ==
  (last.op = "replyToThread" /\ last.ok) =>
    LET t == last.thread
        id == ToHex(ParseInt16(Before.messageId[t]) + 1)
    IN /\ After = [Before EXCEPT !.messageId[t] = id,
                                 !.messages[t] = Append(@, last.out)]
       /\ last.out.payload.messageId = id
       /\ last.out.payload.re = getJWKthumbprint(Before.threadInfo[t].theirEPK)
C8_Witness ==
  /\ last.op = "replyToThread" /\ last.ok
  /\ Len(After.messages[last.thread]) = Len(Before.messages[last.thread]) + 1
  /\ hasItem(Before.invitation, last.thread)

\* C9: appendThread, with or without a thread id, of a peer's reply that is
\* already in the caller's messages:<T> succeeds, makes messages:<T> one
\* entry longer and leaves thread-info:<T> and message-id:<T> as they were.
AlreadyAppended(t) ==
  /\ last.op = "appendThread"
  /\ IsReply(last.jws)
  /\ last.jws.signature.kid # IdentityKeyId(Caller)
  /\ last.jws \in Range(Before.messages[t])
  /\ last.thread \in {NoThumbprint, t}
C9_IdempotentAppend ==
  \A t \in DOMAIN Before.messages : AlreadyAppended(t) =>
    /\ last.ok
    /\ Len(After.messages[t]) = Len(Before.messages[t]) + 1
    /\ After.threadInfo[t] = Before.threadInfo[t]
    /\ After.messageId[t] = Before.messageId[t]

\* C10: when B has replied to A's invitation and A has taken in B's first
\* reply, the secret A derives for its thread equals the secret B derives for
\* its thread.
Paired(a, ta, b, tb) ==
  /\ a # b
  /\ hasItem(store[a].invitation, ta)
  /\ hasItem(store[a].threadInfo, ta)
  /\ store[b].threadInfo[tb].signedInvite = store[a].invitation[ta]
  /\ \E r \in Range(store[a].messages[ta]) :
        /\ r.header.jwk = IdentityPublicJWK(b)
        /\ r.signature.kid = IdentityKeyId(b)
        /\ getJWKthumbprint(r.payload.epk) = tb
C10_SharedSecretSymmetry ==
  \A a \in Clients, b \in Clients :
    \A ta \in DOMAIN store[a].threadInfo, tb \in DOMAIN store[b].threadInfo :
      Paired(a, ta, b, tb) =>
        readThreadSecret(a, store[a], ta).secret = readThreadSecret(b, store[b], tb).secret

\* C11: a reply whose ciphertext was made under the secret of thread T1 is
\* not accepted by appendThread(jws, T2) for another thread T2 (of the same
\* or of another client, and not the other end of T1's conversation): the
\* call fails, returns no plaintext and leaves the caller's storage as it was.
StoreBefore == [store EXCEPT ![Caller] = Before]
SameConversation(c1, t1, c2, t2) ==
  \/ c1 = c2 /\ t1 = t2
  \/ /\ c1 # c2
     /\ getJWKthumbprint(StoreBefore[c1].threadInfo[t1].theirEPK) = t2
     /\ getJWKthumbprint(StoreBefore[c2].threadInfo[t2].theirEPK) = t1
MadeUnder(jws, c1, t1) ==
  LET rts == readThreadSecret(c1, StoreBefore[c1], t1)
  IN rts.ok /\ FromBase64Url(jws.payload.message).key = rts.secret
CrossThreadCall(c1, t1) ==
  /\ last.op = "appendThread"
  /\ last.thread # NoThumbprint
  /\ hasItem(Before.threadInfo, last.thread)
  /\ IsReply(last.jws)
  /\ MadeUnder(last.jws, c1, t1)
  /\ ~SameConversation(c1, t1, Caller, last.thread)
C11_NoCrossThreadLeakage ==
  \A c1 \in Clients : \A t1 \in DOMAIN StoreBefore[c1].threadInfo :
    CrossThreadCall(c1, t1) => (~last.ok /\ last.resMessage = <<>> /\ After = Before)
C11_Witness ==
  /\ \E t1 \in DOMAIN Before.threadInfo : CrossThreadCall(Caller, t1)
  /\ Intact(last.jws)
  /\ ~last.ok

\* C14: every stored message-id and the messageId of every invitation and
\* reply produced is a non-negative integer below MAX_MESSAGE_ID, and a
\* replyToThread whose increment would reach MAX_MESSAGE_ID fails.
BelowMax(n) == n >= 0 /\ n < MAX_MESSAGE_ID
C14_MessageIdBound ==
  /\ \A c \in Clients : \A t \in DOMAIN store[c].messageId :
        BelowMax(ParseInt16(store[c].messageId[t]))
  /\ \A w \in wire : BelowMax(MessageIdOf(w.jws))
  /\ (/\ last.op = "replyToThread"
      /\ hasItem(Before.messageId, last.thread)
      /\ ParseInt16(Before.messageId[last.thread]) + 1 >= MAX_MESSAGE_ID) => ~last.ok

\* C15: for every stored thread-info:T the entry encrypted-thread-key of
\* T.myThumbprint exists and decryptFromSelf opens it to a key pair whose
\* public thumbprint is T.myThumbprint; every stored invitation:X has
\* encrypted-thread-key:X.
KeyKept(c, x) ==
  /\ hasItem(store[c].encryptedThreadKey, x)
  /\ LET back == decryptFromSelf(c, store[c].encryptedThreadKey[x])
     IN back.ok /\ getJWKthumbprint(KeyPairOfJson(back.message).publicKeyJWK) = x
C15_ThreadKeyInvariant ==
  \A c \in Clients :
    /\ \A t \in DOMAIN store[c].threadInfo :
          store[c].threadInfo[t].myThumbprint = t /\ KeyKept(c, t)
    /\ \A x \in DOMAIN store[c].invitation : hasItem(store[c].encryptedThreadKey, x)
C15_Witness ==
  /\ \A c \in Clients : store[c].threadInfo # EmptyMap
  /\ \E x \in DOMAIN store["A"].invitation : ~hasItem(store["A"].threadInfo, x)

\* C16: appendThread without a thread id sends a JWS without jwk to thread
\* payload.re when thread-info of payload.re exists and fails otherwise; a
\* JWS with jwk fails when payload.epk is missing or no invitation of
\* payload.re is stored. Every failing call leaves storage as it was.
NoIdCall == last.op = "appendThread" /\ last.thread = NoThumbprint
C16_Routing ==
  NoIdCall =>
    LET jws == last.jws
        re == jws.payload.re
    IN /\ (jws.header.jwk = NoJWK /\ ~hasItem(Before.threadInfo, re))
            => (~last.ok /\ After = Before)
       /\ (jws.header.jwk = NoJWK /\ hasItem(Before.threadInfo, re))
            => IF last.ok
               THEN /\ last.resThread = re
                    /\ After = [Before EXCEPT !.messages[re] = Append(@, jws)]
               ELSE After = Before
       /\ (jws.header.jwk # NoJWK /\ (jws.payload.epk = NoJWK \/ ~hasItem(Before.invitation, re)))
            => (~last.ok /\ After = Before)
C16_Witness ==
  /\ NoIdCall
  /\ last.jws.header.jwk # NoJWK
  /\ last.jws.payload.epk = NoJWK
  /\ hasItem(Before.invitation, last.jws.payload.re)
  /\ MessageIdOf(last.jws) = MessageIdOf(Before.invitation[last.jws.payload.re]) + 1
  /\ ~last.ok

\* C19: once thread-info:T is written, no call changes T.theirEPK or
\* T.theirSignature.
C19_PeerBindingFixed ==
  \A t \in DOMAIN Before.threadInfo :
    /\ After.threadInfo[t].theirEPK = Before.threadInfo[t].theirEPK
    /\ After.threadInfo[t].theirSignature = Before.threadInfo[t].theirSignature

\* C20: a reply that appendThread(jws, T) appends to messages:T of an Active
\* thread was signed by T.theirSignature or by the caller's identity key.
C20_OriginAuthenticated ==
  (/\ last.op = "appendThread"
   /\ last.thread # NoThumbprint
   /\ hasItem(Before.threadInfo, last.thread)
   /\ last.ok)
  => \/ VerifyWithKey(last.jws, Before.threadInfo[last.thread].theirSignature)
     \/ VerifyWithKey(last.jws, IdentityPublicJWK(Caller))

\* C17: a value returned by encryptToSelf(m) verifies under the caller's
\* identity key and decryptFromSelf returns exactly m for it; the call
\* returns no value when the self-test fails, and it fails only for a
\* message that decoding its encoding does not give back.
C17_SelfRoundTrip ==
  last.op = "encryptToSelf" =>
    IF last.ok
    THEN /\ VerifyWithKey(last.out, IdentityPublicJWK(Caller))
         /\ \A w \in wire : w.by = Caller => w.ok /\ w.message = last.message
    ELSE /\ last.out = NoJWS
         /\ TextDecoderDecode(TextEncoderEncode(last.message)) # last.message
C17_Witness ==
  /\ last.op = "encryptToSelf" /\ last.ok
  /\ last.message[1] = "units" /\ Len(last.message[2]) >= 2
  /\ \E w \in wire : w.by = Caller /\ w.ok /\ w.message = last.message

\* C12: a replyToThread that fails (at its self-verification, at its
\* self-decryption or in its final append) leaves storage as it was before
\* the call: message-id is not advanced and nothing is appended.
C12_NoPartialCommit ==
  (last.op = "replyToThread" /\ ~last.ok) => After = Before

\* C13: two replyToThread calls of one client on one thread that overlap
\* never read the same stored message-id: each reads, increments and writes
\* it without suspending in between, so their replies carry different
\* messageIds.
Replying(i) == tasks[i].op \in {"replyToThread", "replyToInvitation"}
Overlapping(i, j) ==
  /\ i # j /\ Replying(i) /\ Replying(j)
  /\ tasks[i].client = tasks[j].client /\ tasks[i].thread = tasks[j].thread
  /\ i \in tasks[j].with \/ j \in tasks[i].with
RacedAndReturned(i, j) ==
  /\ Overlapping(i, j)
  /\ tasks[i].seen # <<>> /\ tasks[i].seen = tasks[j].seen
  /\ tasks[i].pc = "done" /\ tasks[j].pc = "done"
C18_ThreadInfoWrittenLast ==
  \A c \in Clients : \A t \in DOMAIN store[c].threadInfo :
    hasItem(store[c].messageId, t) /\ hasItem(store[c].messages, t)

\* C21: an appendThread that fails because payload.message does not decrypt
\* under the thread secret, the signature being valid, leaves storage exactly
\* as it was; a first reply of that kind starts no thread.
CiphertextOpens(rts, jws) ==
  DecryptsUnder(rts, FromBase64Url(jws.payload.iv), FromBase64Url(jws.payload.message))
\* a valid first reply with the expected messageId whose ciphertext does not
\* open under the secret of the thread it would start
UndecryptableFirstReply ==
  /\ FirstReplyCall
  /\ verifyJWS(last.jws, NoJWK)
  /\ ~hasItem(Before.threadInfo, last.jws.payload.re)
  /\ LET invitation == Before.invitation[last.jws.payload.re]
         t == getJWKthumbprint(invitation.payload.epk)
         bound == StartThreadWrite(2, Caller, Before, invitation, last.jws.payload.epk,
                                   last.jws.header.jwk, last.jws.payload.messageId, t)
     IN /\ SequenceCheck(last.jws, invitation)
        /\ ~CiphertextOpens(readThreadSecret(Caller, bound, t), last.jws)
\* a reply to a thread the caller has, accepted by the signature check, whose
\* ciphertext does not open under the thread secret
UndecryptableReply ==
  /\ last.op = "appendThread"
  /\ ~FirstReplyCall
  /\ hasItem(Before.threadInfo, KnownThreadOfCall)
  /\ last.thread = NoThumbprint => last.jws.header.jwk = NoJWK
  /\ parseJWSOk(last.jws, "null", NoJWK)
  /\ SignatureAccepted(Caller, last.jws, Before.threadInfo[KnownThreadOfCall])
  /\ ~CiphertextOpens(readThreadSecret(Caller, Before, KnownThreadOfCall), last.jws)
C21_DecryptionFailureAllOrNothing ==
  (UndecryptableFirstReply \/ UndecryptableReply) => (~last.ok /\ After = Before)

\* C22: threads:<client thumbprint> lists each thread once, it lists T
\* exactly when thread-info:T exists, and every such T has message-id:T and a
\* messages:T that starts with the thread's signed invitation and holds no
\* other invitation.
ThreadIndex(c) ==
  IF hasItem(store[c].threads, getJWKthumbprint(IdentityPublicJWK(c)))
  THEN store[c].threads[getJWKthumbprint(IdentityPublicJWK(c))]
  ELSE <<>>
C22_ThreadIndexConsistency ==
  \A c \in Clients :
    /\ \A p, q \in DOMAIN ThreadIndex(c) : p # q => ThreadIndex(c)[p] # ThreadIndex(c)[q]
    /\ Range(ThreadIndex(c)) = DOMAIN store[c].threadInfo
    /\ \A t \in DOMAIN store[c].threadInfo :
         /\ hasItem(store[c].messageId, t)
         /\ hasItem(store[c].messages, t)
         /\ store[c].messages[t] # <<>>
         /\ store[c].messages[t][1] = store[c].threadInfo[t].signedInvite
         /\ \A p \in 2 .. Len(store[c].messages[t]) : IsReply(store[c].messages[t][p])
====
